---- MODULE Spec2Model ----
(***************************************************************************)
(* A model of the ASDL front end of src/asdl.py: the lexer tokenize_asdl,  *)
(* the recursive-descent parser ASDLParser, the tree nodes, the generic    *)
(* visitor VisitorBase and the checker Check / check.                      *)
(*                                                                         *)
(* A buffer is a sequence of one-character strings.  Positions are the     *)
(* code's 0-based positions: the character at position p is buf[p + 1].    *)
(***************************************************************************)
EXTENDS Integers, Sequences, FiniteSets, TLC

VARIABLES
    buf,        \* the text buffer handed to tokenize_asdl / ASDLParser.parse
    input,      \* how the buffer was written: its kind and the tree it renders
    pc,         \* where the run is: start, lexing, lexed, parsed, failed, checking, done,
                \* or built, visiting, visited, raised for a visitor that is called directly
    pos,        \* tokenize_asdl: scan position
    lineno,     \* tokenize_asdl: line counter
    tokens,     \* tokenize_asdl: the tokens yielded so far, each with its start
    lexerr,     \* tokenize_asdl: the ASDLSyntaxError it raised, or NoError
    result,     \* what ASDLParser.parse did: a Module returned or an exception raised
    stack,      \* the visitor's pending visit calls, the next one first
    ups,        \* for each pending call, the objects of the visit calls around it, innermost first
    visitor,    \* the class of the visitor instance, or NoneVal
    lookups,    \* node kind -> how many times visit looked its handler up with getattr
    calls,      \* the handler calls visit made, in order
    names_with_seq, \* CustomVisitor.names_with_seq
    raised,     \* the class of the exception that left the outermost visit, or NoneVal
    cache,      \* VisitorBase.cache: node kind -> handler
    cons,       \* Check.cons: constructor name -> name of the type that first defined it
    errors,     \* Check.errors
    types,      \* Check.types: field type name -> list of the names that used it
    order,      \* insertion order of the keys of Check.types
    out,        \* what was printed
    verdict     \* what check returned, or NoneVal

vars == <<buf, input, pc, pos, lineno, tokens, lexerr, result,
          stack, cache, cons, errors, types, order, out, verdict,
          ups, visitor, lookups, calls, names_with_seq, raised>>

lexvars == <<pos, lineno, tokens, lexerr>>
chkvars == <<stack, cache, cons, errors, types, order, out, verdict,
             ups, visitor, lookups, calls, names_with_seq, raised>>

\* Python's None: no identifier the lexer yields can equal it.
NoneVal == "<None>"

(***************************************************************************)
(* Characters.                                                             *)
(***************************************************************************)
NL == "\n"

Lower == {"a", "b", "d", "e", "f", "i", "l", "m", "n", "o", "r", "s", "t", "u", "x"}
Upper == {"A", "B", "M"}
Digit == {"1"}

\* str.isalpha
isalpha(c) == c \in Lower \cup Upper

\* str.isupper, of one alphabetic character
isupper(c) == c \in Upper

\* what the pattern \W does not match: a word character
IsWordChar(c) == isalpha(c) \/ c \in Digit \/ c = "_"

\* what the pattern \S does not match: white space
IsSpaceChar(c) == c \in {" ", NL, "\t"}

RECURSIVE Str(_)
\* the Python string made of the characters of s
Str(s) == IF s = <<>> THEN "" ELSE s[1] \o Str(Tail(s))

Min(S) == CHOOSE m \in S : \A n \in S : m <= n

\* pattern.search(b, p) for a one-character pattern: the position of the
\* first character at or after p that P accepts, or -1
Search(b, p, P(_)) ==
    IF \E i \in p .. (Len(b) - 1) : P(b[i + 1])
    THEN CHOOSE i \in p .. (Len(b) - 1) :
             P(b[i + 1]) /\ \A j \in p .. (i - 1) : ~P(b[j + 1])
    ELSE -1

NotSpace(c) == ~IsSpaceChar(c)
NotWord(c) == ~IsWordChar(c)
IsNewline(c) == c = NL

\* tokenize_asdl._re_skip_whitespace.search(b, p): start of the match or -1
re_skip_whitespace(b, p) == Search(b, p, NotSpace)

\* tokenize_asdl._re_nonword.search(b, p): start of the match or -1
re_nonword(b, p) == Search(b, p, NotWord)

\* b.find('\n', p)
find_newline(b, p) == Search(b, p, IsNewline)

\* a count that starts one character late
count_newlines_late(b, lo, hi) ==
    Cardinality({i \in (lo + 1) .. (hi - 1) : b[i + 1] = NL})

\* b.count('\n', lo, hi)
count_newlines(b, lo, hi) == Cardinality({i \in lo .. (hi - 1) : b[i + 1] = NL})

\* tokenize_asdl._operator_table.get(c, None)
operator_table(c) ==
    CASE c = "=" -> "Equals"
      [] c = "," -> "Comma"
      [] c = "?" -> "Question"
      [] c = "|" -> "Pipe"
      [] c = "(" -> "LParen"
      [] c = ")" -> "RParen"
      [] c = "*" -> "Asterisk"
      [] c = "{" -> "LBrace"
      [] c = "}" -> "RBrace"
      [] OTHER -> NoneVal

\* Token(kind, value, lineno); start is the position of its first
\* character, kept beside the token for the statements about it
Token(kind, value, line, start) ==
    [kind |-> kind, value |-> value, lineno |-> line, start |-> start]

NoToken == [kind |-> NoneVal, value |-> NoneVal, lineno |-> 0, start |-> -1]

\* a comment that swallows the rest of the buffer
CommentEnd_rest(b, p) == Len(b)

\* where a comment that starts at p ends: the next newline, or the end of
\* the buffer
CommentEnd(b, p) ==
    LET nl == find_newline(b, p + 1)
    IN  IF nl < 0 THEN Len(b) ELSE nl

\* an identifier that ends at the first character that is no letter
IdentEnd_letters(b, p) ==
    LET m == Search(b, p + 1, LAMBDA c : ~isalpha(c))
    IN  IF m >= 0 THEN m ELSE Len(b)

\* where an identifier that starts at p ends
IdentEnd(b, p) ==
    LET m == re_nonword(b, p + 1)
    IN  IF m >= 0 THEN m ELSE Len(b)

\* F applied to the value of v, which is computed once
With(v, F(_)) == CHOOSE y \in { F(x) : x \in {v} } : TRUE

\* One iteration of the loop of tokenize_asdl, entered with p < len(b):
\*   what = "return"   no non-blank character is left
\*          "yield"    a token is yielded
\*          "continue" a comment was skipped
\*          "raise"    ASDLSyntaxError(msg, lineno)
tokenize_iter(b, p, line) ==
    With(re_skip_whitespace(b, p), LAMBDA m :
        IF m < 0
        THEN [what |-> "return", tok |-> NoToken, pos |-> p, lineno |-> line]
        ELSE
        With(line + count_newlines(b, p, m), LAMBDA line2 :
        With(b[m + 1], LAMBDA c :
            IF isalpha(c)
            THEN With(IdentEnd(b, m), LAMBDA end :
                     [what |-> "yield",
                      tok |-> Token(IF isupper(c) THEN "ConstructorId" ELSE "TypeId",
                                    Str(SubSeq(b, m + 1, end)), line2, m),
                      pos |-> end, lineno |-> line2])
            ELSE IF c = "-"
            THEN IF m < Len(b) - 1 /\ b[m + 2] = "-"
                 THEN [what |-> "continue", tok |-> NoToken,
                       pos |-> CommentEnd(b, m), lineno |-> line2]
                 ELSE [what |-> "raise", tok |-> NoToken, pos |-> m, lineno |-> line2]
            ELSE IF operator_table(c) # NoneVal
            THEN [what |-> "yield", tok |-> Token(operator_table(c), c, line2, m),
                  pos |-> m + 1, lineno |-> line2]
            ELSE [what |-> "raise", tok |-> NoToken, pos |-> m, lineno |-> line2])))

RECURSIVE tokenize_from(_, _, _)
\* The generator run to its end from scan state (p, line): the tokens it
\* yields and how it ends ("stop": StopIteration, "raise": ASDLSyntaxError
\* with the given line, at the given position).
tokenize_from(b, p, line) ==
    IF p >= Len(b)
    THEN [toks |-> <<>>, end |-> "stop", lineno |-> line, at |-> p]
    ELSE With(tokenize_iter(b, p, line), LAMBDA it :
        CASE it.what = "return" ->
                [toks |-> <<>>, end |-> "stop", lineno |-> line, at |-> p]
          [] it.what = "raise" ->
                [toks |-> <<>>, end |-> "raise", lineno |-> it.lineno, at |-> it.pos]
          [] it.what = "continue" -> tokenize_from(b, it.pos, it.lineno)
          [] OTHER ->
                With(tokenize_from(b, it.pos, it.lineno), LAMBDA rest :
                     [rest EXCEPT !.toks = <<it.tok>> \o rest.toks]))

\* tokenize_asdl(buf), as a stream the caller pulls from
tokenize_asdl(b) == tokenize_from(b, 0, 1)


(***************************************************************************)
(* Tree nodes.  class is the node's Python class, which VisitorBase.visit  *)
(* dispatches on.                                                          *)
(***************************************************************************)
\* Module.types: {type.name: type.value for type in dfns}; a later
\* definition of a name replaces an earlier one
\* a dictionary in which the first definition of a name stays
ModuleTypes_first(dfns) ==
    [n \in {dfns[k].name : k \in 1 .. Len(dfns)} |->
        dfns[CHOOSE k \in 1 .. Len(dfns) :
                /\ dfns[k].name = n
                /\ \A j \in 1 .. (k - 1) : dfns[j].name # n].value]

ModuleTypes(dfns) ==
    [n \in {dfns[k].name : k \in 1 .. Len(dfns)} |->
        dfns[CHOOSE k \in 1 .. Len(dfns) :
                /\ dfns[k].name = n
                /\ \A j \in (k + 1) .. Len(dfns) : dfns[j].name # n].value]

Module(name, dfns) ==
    [class |-> "Module", name |-> name, dfns |-> dfns, types |-> ModuleTypes(dfns)]

Type(name, value) == [class |-> "Type", name |-> name, value |-> value]

\* An optional list argument: None, or a list
NoList == [none |-> TRUE, list |-> <<>>]
AList(xs) == [none |-> FALSE, list |-> xs]

\* xs or []
OrEmpty(xs) == IF xs.none THEN <<>> ELSE xs.list

Constructor(name, fields) ==
    [class |-> "Constructor", name |-> name, fields |-> OrEmpty(fields)]

Field(type, name, seq, opt) ==
    [class |-> "Field", type |-> type, name |-> name, seq |-> seq, opt |-> opt]

Sum(sumtypes, attributes) ==
    [class |-> "Sum", types |-> sumtypes, attributes |-> OrEmpty(attributes)]

Product(fields, attributes) ==
    [class |-> "Product", fields |-> fields, attributes |-> OrEmpty(attributes)]

builtin_types == {"identifier", "string", "bytes", "int", "object", "singleton"}

(***************************************************************************)
(* ASDLParser.  S is the token stream tokenize_asdl(buf); the parser pulls *)
(* from it one token at a time and never sees what it does not pull.  The  *)
(* parser's state ps is                                                    *)
(*   i      the index in S.toks of cur_token (0 before the first _advance, *)
(*          Len(S.toks) + 1 once the generator is exhausted: cur_token is  *)
(*          None)                                                          *)
(*   loops  the loop iterations entered so far, <<loop, i at its head>>    *)
(* Every method returns [st, v, lineno, ps]: st is "ok" with the returned  *)
(* value v, or the class of the exception raised (lineno: its line).       *)
(***************************************************************************)
\* no tree: None where a Module is expected
NoTree == [class |-> "NoneType"]

Ok(v, ps) == [st |-> "ok", v |-> v, lineno |-> 0, ps |-> ps]

Raise(exc, line, ps) == [st |-> exc, v |-> NoTree, lineno |-> line, ps |-> ps]

CurIsNone(S, ps) == ps.i < 1 \/ ps.i > Len(S.toks)

\* self.cur_token, when it is a token
Cur(S, ps) == S.toks[ps.i]

\* reading self.cur_token.kind or .value while cur_token is None
AttributeError(ps) == Raise("AttributeError", 0, ps)

EnterLoop(ps, loop) == [ps EXCEPT !.loops = Append(@, <<loop, ps.i>>)]

id_kinds == {"ConstructorId", "TypeId"}

\* m, and then F on what m returned, unless m raised
Then(m, F(_)) == With(m, LAMBDA r : IF r.st # "ok" THEN r ELSE F(r))

_advance(S, ps) ==
    LET cur_val == IF CurIsNone(S, ps) THEN NoneVal ELSE Cur(S, ps).value
    IN  IF ps.i + 1 <= Len(S.toks)
        THEN Ok(cur_val, [ps EXCEPT !.i = ps.i + 1])
        ELSE IF S.end = "raise" /\ ps.i = Len(S.toks)
        THEN Raise("ASDLSyntaxError", S.lineno, ps)
        ELSE Ok(cur_val, [ps EXCEPT !.i = Len(S.toks) + 1])

\* kinds: the set of the kinds that match
_match(S, ps, kinds) ==
    IF CurIsNone(S, ps) THEN AttributeError(ps)
    ELSE IF Cur(S, ps).kind \in kinds
    THEN Then(_advance(S, ps), LAMBDA a : Ok(Cur(S, ps).value, a.ps))
    ELSE Raise("ASDLSyntaxError", Cur(S, ps).lineno, ps)

\* a keyword test that looks at the kind of the token only
_at_keyword_kind(S, ps, keyword) ==
    IF CurIsNone(S, ps) THEN AttributeError(ps)
    ELSE Ok(Cur(S, ps).kind = "TypeId", ps)

_at_keyword(S, ps, keyword) ==
    IF CurIsNone(S, ps) THEN AttributeError(ps)
    ELSE Ok(Cur(S, ps).kind = "TypeId" /\ Cur(S, ps).value = keyword, ps)

\* a quantifier that takes a "?" after a "*" as well
_parse_optional_field_quantifier_both(S, ps) ==
    IF CurIsNone(S, ps) THEN AttributeError(ps)
    ELSE IF Cur(S, ps).kind = "Asterisk"
    THEN Then(_advance(S, ps), LAMBDA a :
             IF ~CurIsNone(S, a.ps) /\ Cur(S, a.ps).kind = "Question"
             THEN Then(_advance(S, a.ps), LAMBDA a2 :
                       Ok([is_seq |-> TRUE, is_opt |-> TRUE], a2.ps))
             ELSE Ok([is_seq |-> TRUE, is_opt |-> FALSE], a.ps))
    ELSE IF Cur(S, ps).kind = "Question"
    THEN Then(_advance(S, ps), LAMBDA a : Ok([is_seq |-> FALSE, is_opt |-> TRUE], a.ps))
    ELSE Ok([is_seq |-> FALSE, is_opt |-> FALSE], ps)

\* a quantifier that takes "*" for the optional mark and "?" for the sequence
_parse_optional_field_quantifier_swapped(S, ps) ==
    IF CurIsNone(S, ps) THEN AttributeError(ps)
    ELSE IF Cur(S, ps).kind = "Asterisk"
    THEN Then(_advance(S, ps), LAMBDA a : Ok([is_seq |-> FALSE, is_opt |-> TRUE], a.ps))
    ELSE IF Cur(S, ps).kind = "Question"
    THEN Then(_advance(S, ps), LAMBDA a : Ok([is_seq |-> TRUE, is_opt |-> FALSE], a.ps))
    ELSE Ok([is_seq |-> FALSE, is_opt |-> FALSE], ps)

_parse_optional_field_quantifier(S, ps) ==
    IF CurIsNone(S, ps) THEN AttributeError(ps)
    ELSE IF Cur(S, ps).kind = "Asterisk"
    THEN Then(_advance(S, ps), LAMBDA a : Ok([is_seq |-> TRUE, is_opt |-> FALSE], a.ps))
    ELSE IF Cur(S, ps).kind = "Question"
    THEN Then(_advance(S, ps), LAMBDA a : Ok([is_seq |-> FALSE, is_opt |-> TRUE], a.ps))
    ELSE Ok([is_seq |-> FALSE, is_opt |-> FALSE], ps)

\* the optional trailing identifier of a field
FieldId(S, ps) ==
    IF CurIsNone(S, ps) THEN AttributeError(ps)
    ELSE IF Cur(S, ps).kind \in id_kinds THEN _advance(S, ps)
    ELSE Ok(NoneVal, ps)

\* One field of the loop of _parse_fields, up to fields.append
ParseField(S, ps) ==
    Then(_advance(S, ps), LAMBDA typename :
    Then(_parse_optional_field_quantifier(S, typename.ps), LAMBDA q :
    Then(FieldId(S, q.ps), LAMBDA id :
         Ok(Field(typename.v, id.v, q.v.is_seq, q.v.is_opt), id.ps))))

RECURSIVE FieldsLoop(_, _, _)
\* the while loop of _parse_fields and the _match(RParen) after it
FieldsLoop(S, ps, fields) ==
    IF CurIsNone(S, ps) THEN AttributeError(ps)
    ELSE IF Cur(S, ps).kind # "TypeId"
    THEN Then(_match(S, ps, {"RParen"}), LAMBDA m : Ok(fields, m.ps))
    ELSE
    Then(ParseField(S, EnterLoop(ps, "fields")), LAMBDA f :
        IF CurIsNone(S, f.ps) THEN AttributeError(f.ps)
        ELSE IF Cur(S, f.ps).kind = "RParen"
        THEN Then(_match(S, f.ps, {"RParen"}), LAMBDA m : Ok(Append(fields, f.v), m.ps))
        ELSE IF Cur(S, f.ps).kind = "Comma"
        THEN Then(_advance(S, f.ps), LAMBDA a : FieldsLoop(S, a.ps, Append(fields, f.v)))
        ELSE FieldsLoop(S, f.ps, Append(fields, f.v)))

_parse_fields(S, ps) ==
    Then(_match(S, ps, {"LParen"}), LAMBDA m : FieldsLoop(S, m.ps, <<>>))

_parse_optional_fields(S, ps) ==
    IF CurIsNone(S, ps) THEN AttributeError(ps)
    ELSE IF Cur(S, ps).kind = "LParen"
    THEN Then(_parse_fields(S, ps), LAMBDA f : Ok(AList(f.v), f.ps))
    ELSE Ok(NoList, ps)

_parse_optional_attributes(S, ps) ==
    Then(_at_keyword(S, ps, "attributes"), LAMBDA k :
        IF k.v
        THEN Then(_advance(S, ps), LAMBDA a :
             Then(_parse_fields(S, a.ps), LAMBDA f : Ok(AList(f.v), f.ps)))
        ELSE Ok(NoList, ps))

_parse_product(S, ps) ==
    Then(_parse_fields(S, ps), LAMBDA f :
    Then(_parse_optional_attributes(S, f.ps), LAMBDA a : Ok(Product(f.v, a.v), a.ps)))

\* Constructor(self._match(TokenKind.ConstructorId), self._parse_optional_fields())
ParseConstructor(S, ps) ==
    Then(_match(S, ps, {"ConstructorId"}), LAMBDA n :
    Then(_parse_optional_fields(S, n.ps), LAMBDA f : Ok(Constructor(n.v, f.v), f.ps)))

RECURSIVE SumLoop(_, _, _)
\* the while loop of _parse_type and the return after it
SumLoop(S, ps, sumlist) ==
    IF CurIsNone(S, ps) THEN AttributeError(ps)
    ELSE IF Cur(S, ps).kind = "Pipe"
    THEN Then(_advance(S, EnterLoop(ps, "sum")), LAMBDA a :
         Then(ParseConstructor(S, a.ps), LAMBDA c :
              SumLoop(S, c.ps, Append(sumlist, c.v))))
    ELSE Then(_parse_optional_attributes(S, ps), LAMBDA at : Ok(Sum(sumlist, at.v), at.ps))

_parse_type(S, ps) ==
    IF CurIsNone(S, ps) THEN AttributeError(ps)
    ELSE IF Cur(S, ps).kind = "LParen" THEN _parse_product(S, ps)
    ELSE Then(ParseConstructor(S, ps), LAMBDA c : SumLoop(S, c.ps, <<c.v>>))

RECURSIVE DefinitionsLoop(_, _, _)
\* the while loop of _parse_definitions and the return after it
DefinitionsLoop(S, ps, defs) ==
    IF CurIsNone(S, ps) THEN AttributeError(ps)
    ELSE IF Cur(S, ps).kind # "TypeId" THEN Ok(defs, ps)
    ELSE
    Then(_advance(S, EnterLoop(ps, "definitions")), LAMBDA typename :
    Then(_match(S, typename.ps, {"Equals"}), LAMBDA e :
    Then(_parse_type(S, e.ps), LAMBDA type :
         DefinitionsLoop(S, type.ps, Append(defs, Type(typename.v, type.v))))))

_parse_definitions(S, ps) == DefinitionsLoop(S, ps, <<>>)

_parse_module(S, ps) ==
    Then(_at_keyword(S, ps, "module"), LAMBDA k :
        IF ~k.v THEN Raise("ASDLSyntaxError", Cur(S, ps).lineno, ps)
        ELSE
        Then(_advance(S, ps), LAMBDA a :
        Then(_match(S, a.ps, id_kinds), LAMBDA name :
        Then(_match(S, name.ps, {"LBrace"}), LAMBDA lb :
        Then(_parse_definitions(S, lb.ps), LAMBDA defs :
        Then(_match(S, defs.ps, {"RBrace"}), LAMBDA rb :
             Ok(Module(name.v, defs.v), rb.ps)))))))

\* ASDLParser().parse(b)
parse(b) ==
    With(tokenize_asdl(b), LAMBDA S :
         Then(_advance(S, [i |-> 0, loops |-> <<>>]), LAMBDA a : _parse_module(S, a.ps)))

(***************************************************************************)
(* VisitorBase and Check.  A pending call visit(obj, *args) is a frame     *)
(* [node, args]; a handler's loop "for x in xs: self.visit(x, ...)" puts   *)
(* the calls on the stack in order, ahead of what was pending: a handler   *)
(* does nothing after its loop, so the calls run in the order of the       *)
(* nested calls of the code.                                               *)
(***************************************************************************)
Frame(node, args) == [node |-> node, args |-> args]

\* a loop that takes the objects from the last to the first
Frames_reversed(nodes, args) ==
    [k \in 1 .. Len(nodes) |-> Frame(nodes[Len(nodes) + 1 - k], args)]

Frames(nodes, args) == [k \in 1 .. Len(nodes) |-> Frame(nodes[k], args)]

\* the methods of Check that getattr(self, "visit" + klass.__name__, None) finds
CheckHandlers == {"Module", "Type", "Sum", "Constructor", "Field", "Product"}

\* the methods of the test's CustomVisitor that getattr finds
CustomVisitorHandlers == {"Module", "Type", "Sum", "Constructor"}

Visitors == {"Check", "CustomVisitor"}

Handlers(self) == IF self = "Check" THEN CheckHandlers ELSE CustomVisitorHandlers

\* getattr(self, methname, None)
getattr_visit(self, klass) ==
    IF klass \in Handlers(self) THEN "visit" \o klass ELSE NoneVal

\* self.cache.get(klass)
cache_get(c, klass) == IF klass \in DOMAIN c THEN c[klass] ELSE NoneVal

\* if meth is None: the test that sends visit(obj) to getattr
LooksUp(c, klass) == cache_get(c, klass) = NoneVal

\* the method visit(obj) resolves for a node of class klass
Resolve(self, c, klass) ==
    IF LooksUp(c, klass) THEN getattr_visit(self, klass) ELSE cache_get(c, klass)

\* the cache after visit(obj)
CacheAfter(self, c, klass) ==
    IF LooksUp(c, klass)
    THEN [k \in DOMAIN c \cup {klass} |->
            IF k = klass THEN getattr_visit(self, klass) ELSE c[k]]
    ELSE c

\* the count of getattr lookups after visit(obj)
LookupsAfter(l, c, klass) ==
    IF LooksUp(c, klass)
    THEN [k \in DOMAIN l \cup {klass} |->
            IF k = klass THEN (IF klass \in DOMAIN l THEN l[klass] ELSE 0) + 1 ELSE l[k]]
    ELSE l

\* the parameters of a handler, self apart
Arity(self, meth) ==
    IF self = "Check" /\ meth \notin {"visitModule", "visitType"} THEN 2 ELSE 1

\* the fields of a constructor that CustomVisitor.visitConstructor reads
\* f.seq of: all of them, or those up to the first that has no seq
SeqRead(fields) ==
    IF \E k \in 1 .. Len(fields) : fields[k].class # "Field"
    THEN SubSeq(fields, 1, (CHOOSE k \in 1 .. Len(fields) :
                               /\ fields[k].class # "Field"
                               /\ \A j \in 1 .. (k - 1) : fields[j].class = "Field") - 1)
    ELSE fields

\* CustomVisitor.visitConstructor: names_with_seq after the loop, or after
\* the part of it that ran
SeqNamesAfter(names, node) ==
    names \o [k \in 1 .. Len(SelectSeq(SeqRead(node.fields), LAMBDA f : f.seq)) |-> node.name]

\* meth(obj, *args) raises: the arguments do not fit the handler, or
\* CustomVisitor.visitConstructor reads f.seq of an object that has none
HandlerRaises(self, meth, node, args) ==
    IF 1 + Len(args) # Arity(self, meth) THEN "TypeError"
    ELSE IF self = "CustomVisitor" /\ meth = "visitConstructor"
            /\ \E k \in 1 .. Len(node.fields) : node.fields[k].class # "Field"
    THEN "AttributeError"
    ELSE NoneVal

\* a visit that lets the exception pass without a word but where it was raised
ErrorLines_innermost(node, up, e) ==
    <<[fmt |-> "Error visiting %r: %s", obj |-> node, e |-> e]>>

\* print("Error visiting %r: %s" % (obj, e)), one for obj and one for
\* each visit call around it, from the innermost
ErrorLines(node, up, e) ==
    [k \in 1 .. (1 + Len(up)) |->
        [fmt |-> "Error visiting %r: %s", obj |-> IF k = 1 THEN node ELSE up[k - 1], e |-> e]]

\* dict.get(key)
dict_get(d, key) == IF key \in DOMAIN d THEN d[key] ELSE NoneVal

\* d[key] = value
dict_set(d, key, value) ==
    [k \in DOMAIN d \cup {key} |-> IF k = key THEN value ELSE d[k]]

RECURSIVE Join(_, _)
\* sep.join(xs)
Join(xs, sep) ==
    IF xs = <<>> THEN ""
    ELSE IF Len(xs) = 1 THEN xs[1]
    ELSE xs[1] \o sep \o Join(Tail(xs), sep)

\* l = d.setdefault(key, []); l.append(name)
setdefault_append(d, key, name) ==
    dict_set(d, key, Append(IF key \in DOMAIN d THEN d[key] ELSE <<>>, name))

\* a visitConstructor that records the latest definer
ConsAfter_latest(c, key, name) == dict_set(c, key, name)

\* visitConstructor: self.cons after the test of conflict
ConsAfter(c, key, name) ==
    IF dict_get(c, key) = NoneVal THEN dict_set(c, key, name) ELSE c

\* visitConstructor: what it prints on a conflict
RedefinitionLines(key, conflict, name) ==
    << "Redefinition of constructor" \o key,
       "Defined in " \o conflict \o " and " \o name >>

\* a visitConstructor that passes the type's name on to the fields
ConstructorCalls_name(node, name) == Frames(node.fields, <<name>>)

\* visitConstructor: for f in cons.fields: self.visit(f, key)
ConstructorCalls(node, name) == Frames(node.fields, <<node.name>>)

\* the keys t of v.types that check reports, in the dict's order
Undefined(mod, keys) ==
    SelectSeq(keys, LAMBDA t : t \notin DOMAIN mod.types /\ t \notin builtin_types)

UndefinedLine(t, uses) ==
    "Undefined type " \o t \o ", used in " \o Join(uses, ", ")


(***************************************************************************)
(* The buffers.  A grammatical buffer is the text of a Module tree written *)
(* out by the grammar                                                      *)
(*   module      ::= "module" Id "{" definitions "}"                       *)
(*   definitions ::= { TypeId "=" type }                                   *)
(*   product     ::= fields [ "attributes" fields ]                        *)
(*   sum         ::= constructor { "|" constructor } [ "attributes" fields ]*)
(*   constructor ::= ConstructorId [ fields ]                              *)
(*   fields      ::= "(" field { "," field } ")"                           *)
(*   field       ::= TypeId [ "?" | "*" ] [ Id ]                           *)
(* The other buffers are the proper prefixes of these, these with one      *)
(* lexeme removed or a few lexemes inserted, and every short sequence of   *)
(* characters.                                                             *)
(***************************************************************************)
\* the size of a tree: its definitions, constructors and fields
MaxSize == 4
\* the size of the trees whose text is edited
MaxEditSize == 2
\* the length of the buffers that are arbitrary characters
MaxBufLen == 4

TypeNames == {"x", "attributes"}
ConsNames == {"A", "B"}
FieldPool ==
    { Field("int", "a1", FALSE, TRUE),
      Field("foo", NoneVal, TRUE, FALSE),
      Field("x", "b", FALSE, FALSE) }

LexAlphabet == {"a", "A", "_", " ", NL, "-", "("}

\* the lexemes inserted into a text
InsertPool == { <<",">>, <<"(", ")">>, <<"x">>, <<"$">>, <<"?">>, <<"*">> }

FieldSeqs(n) == [1 .. n -> FieldPool]

RECURSIVE ConsSeqs(_)
\* the non-empty lists of constructors of size s in all
ConsSeqs(s) ==
    UNION { { <<Constructor(n, AList(fs))>> \o rest :
                n \in ConsNames, fs \in FieldSeqs(f),
                rest \in (IF s - 1 - f = 0 THEN {<<>>} ELSE ConsSeqs(s - 1 - f)) }
            : f \in 0 .. (s - 1) }

Products(s) ==
    UNION { { Product(f, AList(a)) : f \in FieldSeqs(k), a \in FieldSeqs(s - k) }
            : k \in 1 .. s }

Sums(s) ==
    UNION { { Sum(c, AList(a)) : c \in ConsSeqs(k), a \in FieldSeqs(s - k) }
            : k \in 1 .. s }

RECURSIVE DfnSeqs(_)
\* the lists of definitions of size s in all
DfnSeqs(s) ==
    IF s = 0 THEN {<<>>}
    ELSE UNION { { <<Type(n, v)>> \o rest :
                     n \in TypeNames, v \in Products(k) \cup Sums(k),
                     rest \in DfnSeqs(s - 1 - k) }
                 : k \in 1 .. (s - 1) }

ModulesOfSize(n) == UNION { { Module("M", d) : d \in DfnSeqs(s) } : s \in 0 .. n }

RECURSIVE Flatten(_, _)
\* the lists xs[1], sep, xs[2], sep, ..., joined
Flatten(xs, sep) ==
    IF xs = <<>> THEN <<>>
    ELSE IF Len(xs) = 1 THEN xs[1]
    ELSE xs[1] \o sep \o Flatten(Tail(xs), sep)

RenderField(f) ==
    <<f.type>>
    \o (IF f.seq THEN <<"*">> ELSE IF f.opt THEN <<"?">> ELSE <<>>)
    \o (IF f.name = NoneVal THEN <<>> ELSE <<f.name>>)

RenderFields(fs) ==
    <<"(">> \o Flatten([k \in 1 .. Len(fs) |-> RenderField(fs[k])], <<",">>) \o <<")">>

RenderAttributes(fs) ==
    IF fs = <<>> THEN <<>> ELSE <<"attributes">> \o RenderFields(fs)

RenderConstructor(c) ==
    <<c.name>> \o (IF c.fields = <<>> THEN <<>> ELSE RenderFields(c.fields))

RenderValue(v) ==
    IF v.class = "Product"
    THEN RenderFields(v.fields) \o RenderAttributes(v.attributes)
    ELSE Flatten([k \in 1 .. Len(v.types) |-> RenderConstructor(v.types[k])], <<"|">>)
         \o RenderAttributes(v.attributes)

\* the lexemes of the text of a Module tree
Render(m) ==
    <<"module", m.name, "{">>
    \o Flatten([k \in 1 .. Len(m.dfns) |->
                  <<m.dfns[k].name, "=">> \o RenderValue(m.dfns[k].value)], <<>>)
    \o <<"}">>

\* the characters of the lexemes longer than one character
Spell ==
    [w \in {"module", "attributes", "int", "foo", "a1"} |->
        CASE w = "module" -> <<"m", "o", "d", "u", "l", "e">>
          [] w = "attributes" -> <<"a", "t", "t", "r", "i", "b", "u", "t", "e", "s">>
          [] w = "int" -> <<"i", "n", "t">>
          [] w = "foo" -> <<"f", "o", "o">>
          [] w = "a1" -> <<"a", "1">>]

Chars(w) == IF Len(w) = 1 THEN <<w>> ELSE Spell[w]

\* the buffer: the lexemes one blank apart, a new line after "{"
Text(L) ==
    Flatten([k \in 1 .. Len(L) |->
               Chars(L[k]) \o (IF k = Len(L) THEN <<>>
                               ELSE IF L[k] = "{" THEN <<NL>> ELSE <<" ">>)], <<>>)

Prefixes(L) == { SubSeq(L, 1, k) : k \in 0 .. (Len(L) - 1) }

Deletions(L) == { SubSeq(L, 1, k - 1) \o SubSeq(L, k + 1, Len(L)) : k \in 1 .. Len(L) }

Insertions(L) ==
    { SubSeq(L, 1, k) \o u \o SubSeq(L, k + 1, Len(L)) : k \in 0 .. Len(L), u \in InsertPool }

\* the buffer is the text of the lexemes L
Written(kind, tree, L) ==
    /\ buf = Text(L)
    /\ input = [kind |-> kind, tree |-> tree]

\* Trees put together with the constructors of the node classes, not by the
\* parser: a Type as the value of a Type, and a Constructor among the
\* fields of a Constructor.
BuiltTrees ==
    { Module("M", << Type("x", Sum(<<Constructor("A", NoList)>>, NoList)),
                     Type("y", Type("z", Product(<<Field("int", "a", FALSE, FALSE)>>, NoList))),
                     Type("w", Sum(<<Constructor("B", NoList)>>, NoList)) >>),
      Module("M", << Type("x", Sum(<< Constructor("A", AList(<< Field("int", "a", TRUE, FALSE),
                                                             Constructor("C", NoList),
                                                             Field("int", "c", TRUE, FALSE) >>)),
                                      Constructor("B", AList(<<Field("int", "b", TRUE, FALSE)>>)) >>,
                                   NoList)),
                     Type("y", Product(<<Field("x", "d", FALSE, FALSE)>>, NoList)) >>),
      Module("M", << Type("x", Module("N", << Type("y", Sum(<<Constructor("A", NoList)>>,
                                                            NoList)) >>)),
                     Type("w", Sum(<<Constructor("B", NoList)>>, NoList)) >>) }

Inputs ==
    \/ \E t \in BuiltTrees :
           /\ buf = <<>>
           /\ input = [kind |-> "built", tree |-> t]
    \/ \E m \in ModulesOfSize(MaxSize) : Written("module", m, Render(m))
    \/ \E m \in ModulesOfSize(MaxEditSize) :
           \/ \E L \in Prefixes(Render(m)) : Written("prefix", NoTree, L)
           \/ \E L \in Deletions(Render(m)) \cup Insertions(Render(m)) :
                  Written("edit", NoTree, L)
    \/ \E n \in 0 .. MaxBufLen : \E b \in [1 .. n -> LexAlphabet] :
           /\ buf = b
           /\ input = [kind |-> "chars", tree |-> NoTree]

(***************************************************************************)
(* The state machine.                                                      *)
(***************************************************************************)
NoError == [class |-> NoneVal, lineno |-> 0, at |-> -1]

NoResult == [st |-> NoneVal, v |-> NoTree, lineno |-> 0, ps |-> [i |-> 0, loops |-> <<>>]]

Init ==
    /\ Inputs
    /\ pc = IF input.kind = "built" THEN "built" ELSE "start"
    /\ pos = 0
    /\ lineno = 1
    /\ tokens = <<>>
    /\ lexerr = NoError
    /\ result = NoResult
    /\ stack = <<>>
    /\ cache = <<>>
    /\ cons = <<>>
    /\ errors = 0
    /\ types = <<>>
    /\ order = <<>>
    /\ out = <<>>
    /\ verdict = NoneVal
    /\ ups = <<>>
    /\ visitor = NoneVal
    /\ lookups = <<>>
    /\ calls = <<>>
    /\ names_with_seq = <<>>
    /\ raised = NoneVal

Lexing == pc \in {"start", "lexing"}

\* tokenize_asdl: the loop condition fails, the generator ends
LexExhausted ==
    /\ Lexing
    /\ pos >= Len(buf)
    /\ pc' = "lexed"
    /\ UNCHANGED <<buf, input, lexvars, result, chkvars>>

\* tokenize_asdl: only white space is left, the generator returns
LexReturn ==
    /\ Lexing
    /\ pos < Len(buf)
    /\ tokenize_iter(buf, pos, lineno).what = "return"
    /\ pc' = "lexed"
    /\ UNCHANGED <<buf, input, lexvars, result, chkvars>>

\* tokenize_asdl: an iteration that yields an identifier
LexIdentifier ==
    /\ Lexing
    /\ pos < Len(buf)
    /\ \E it \in {tokenize_iter(buf, pos, lineno)} :
           /\ it.what = "yield"
           /\ it.tok.kind \in id_kinds
           /\ pos' = it.pos
           /\ lineno' = it.lineno
           /\ tokens' = Append(tokens, it.tok)
    /\ pc' = "lexing"
    /\ UNCHANGED <<buf, input, lexerr, result, chkvars>>

\* tokenize_asdl: an iteration that yields an operator
LexOperator ==
    /\ Lexing
    /\ pos < Len(buf)
    /\ \E it \in {tokenize_iter(buf, pos, lineno)} :
           /\ it.what = "yield"
           /\ it.tok.kind \notin id_kinds
           /\ pos' = it.pos
           /\ lineno' = it.lineno
           /\ tokens' = Append(tokens, it.tok)
    /\ pc' = "lexing"
    /\ UNCHANGED <<buf, input, lexerr, result, chkvars>>

\* tokenize_asdl: an iteration that skips a comment
LexComment ==
    /\ Lexing
    /\ pos < Len(buf)
    /\ \E it \in {tokenize_iter(buf, pos, lineno)} :
           /\ it.what = "continue"
           /\ pos' = it.pos
           /\ lineno' = it.lineno
    /\ pc' = "lexing"
    /\ UNCHANGED <<buf, input, tokens, lexerr, result, chkvars>>

\* tokenize_asdl: an iteration that raises ASDLSyntaxError
LexRaise ==
    /\ Lexing
    /\ pos < Len(buf)
    /\ \E it \in {tokenize_iter(buf, pos, lineno)} :
           /\ it.what = "raise"
           /\ pos' = it.pos
           /\ lineno' = it.lineno
           /\ lexerr' = [class |-> "ASDLSyntaxError", lineno |-> it.lineno, at |-> it.pos]
    /\ pc' = "lexed"
    /\ UNCHANGED <<buf, input, tokens, result, chkvars>>

\* ASDLParser().parse(buf)
Parse ==
    /\ pc = "start"
    /\ result' = parse(buf)
    /\ pc' = IF result'.st = "ok" THEN "parsed" ELSE "failed"
    /\ UNCHANGED <<buf, input, lexvars, chkvars>>

\* check(mod), up to the call v.visit(mod)
CheckStart ==
    /\ pc = "parsed"
    /\ stack' = <<Frame(result.v, <<>>)>>
    /\ ups' = << <<>> >>
    /\ visitor' = "Check"
    /\ pc' = "checking"
    /\ UNCHANGED <<buf, input, lexvars, result, cache, cons, errors, types, order,
                   out, verdict, lookups, calls, names_with_seq, raised>>

\* v = Check() or v = CustomVisitor(), up to the call v.visit(obj) for an
\* object of the parsed tree: the module, or the value of one of its
\* types, as in v.visit(self.types['mod'])
VisitStart ==
    /\ pc = "parsed"
    /\ \E self \in Visitors,
          obj \in {result.v} \cup {result.v.types[n] : n \in DOMAIN result.v.types} :
           /\ visitor' = self
           /\ stack' = <<Frame(obj, <<>>)>>
    /\ ups' = << <<>> >>
    /\ pc' = "visiting"
    /\ UNCHANGED <<buf, input, lexvars, result, cache, cons, errors, types, order,
                   out, verdict, lookups, calls, names_with_seq, raised>>

\* the same, for a tree the caller has built
VisitBuilt ==
    /\ pc = "built"
    /\ \E self \in Visitors : visitor' = self
    /\ stack' = <<Frame(input.tree, <<>>)>>
    /\ ups' = << <<>> >>
    /\ pc' = "visiting"
    /\ UNCHANGED <<buf, input, lexvars, result, cache, cons, errors, types, order,
                   out, verdict, lookups, calls, names_with_seq, raised>>

\* v.visit(obj, *args) for the call on top of the stack, when it runs handler
Visiting(self, handler) ==
    /\ pc \in {"checking", "visiting"}
    /\ stack # <<>>
    /\ visitor = self
    /\ Resolve(self, cache, stack[1].node.class) = handler
    /\ HandlerRaises(self, handler, stack[1].node, stack[1].args) = NoneVal
    /\ cache' = CacheAfter(self, cache, stack[1].node.class)
    /\ lookups' = LookupsAfter(lookups, cache, stack[1].node.class)
    /\ calls' = Append(calls, [meth |-> handler, node |-> stack[1].node,
                                args |-> stack[1].args])

\* the calls self.visit(...) of the handler come before what was pending,
\* each inside the visit calls around the handler and the handler's own
Pending(new) ==
    /\ stack' = new \o Tail(stack)
    /\ ups' = [k \in 1 .. Len(new) |-> <<stack[1].node>> \o ups[1]] \o Tail(ups)

VisitModule ==
    /\ Visiting("Check", "visitModule")
    /\ Pending(Frames(stack[1].node.dfns, <<>>))
    /\ UNCHANGED <<buf, input, pc, lexvars, result, cons, errors, types, order, out, verdict,
                   visitor, names_with_seq, raised>>

VisitType ==
    /\ Visiting("Check", "visitType")
    /\ Pending(<<Frame(stack[1].node.value, <<stack[1].node.name>>)>>)
    /\ UNCHANGED <<buf, input, pc, lexvars, result, cons, errors, types, order, out, verdict,
                   visitor, names_with_seq, raised>>

VisitSum ==
    /\ Visiting("Check", "visitSum")
    /\ Pending(Frames(stack[1].node.types, stack[1].args))
    /\ UNCHANGED <<buf, input, pc, lexvars, result, cons, errors, types, order, out, verdict,
                   visitor, names_with_seq, raised>>

VisitConstructor ==
    /\ Visiting("Check", "visitConstructor")
    /\ LET node == stack[1].node
           name == stack[1].args[1]
           key == node.name
           conflict == dict_get(cons, key)
       IN  /\ cons' = ConsAfter(cons, key, name)
           /\ errors' = IF conflict = NoneVal THEN errors ELSE errors + 1
           /\ out' = IF conflict = NoneVal THEN out
                     ELSE out \o RedefinitionLines(key, conflict, name)
           /\ Pending(ConstructorCalls(node, name))
    /\ UNCHANGED <<buf, input, pc, lexvars, result, types, order, verdict,
                   visitor, names_with_seq, raised>>

VisitField ==
    /\ Visiting("Check", "visitField")
    /\ LET key == stack[1].node.type
           name == stack[1].args[1]
       IN  /\ types' = setdefault_append(types, key, name)
           /\ order' = IF key \in DOMAIN types THEN order ELSE Append(order, key)
    /\ Pending(<<>>)
    /\ UNCHANGED <<buf, input, pc, lexvars, result, cons, errors, out, verdict,
                   visitor, names_with_seq, raised>>

VisitProduct ==
    /\ Visiting("Check", "visitProduct")
    /\ Pending(Frames(stack[1].node.fields, stack[1].args))
    /\ UNCHANGED <<buf, input, pc, lexvars, result, cons, errors, types, order, out, verdict,
                   visitor, names_with_seq, raised>>

\* check(mod), after v.visit(mod) has returned
CheckReturn ==
    /\ pc = "checking"
    /\ stack = <<>>
    /\ \E undefined \in {Undefined(result.v, order)} :
           /\ errors' = errors + Len(undefined)
           /\ out' = out \o [k \in 1 .. Len(undefined) |->
                               UndefinedLine(undefined[k], types[undefined[k]])]
           /\ verdict' = (errors' = 0)
    /\ pc' = "done"
    /\ UNCHANGED <<buf, input, lexvars, result, stack, cache, cons, types, order,
                   ups, visitor, lookups, calls, names_with_seq, raised>>

\* what a visit of CustomVisitor leaves alone
CustomFrame ==
    UNCHANGED <<buf, input, pc, lexvars, result, cons, errors, types, order, out, verdict,
                visitor, raised>>

\* CustomVisitor.visitModule: for dfn in mod.dfns: self.visit(dfn)
CustomVisitModule ==
    /\ Visiting("CustomVisitor", "visitModule")
    /\ Pending(Frames(stack[1].node.dfns, <<>>))
    /\ UNCHANGED names_with_seq
    /\ CustomFrame

\* CustomVisitor.visitType: self.visit(type.value)
CustomVisitType ==
    /\ Visiting("CustomVisitor", "visitType")
    /\ Pending(<<Frame(stack[1].node.value, <<>>)>>)
    /\ UNCHANGED names_with_seq
    /\ CustomFrame

\* CustomVisitor.visitSum: for t in sum.types: self.visit(t)
CustomVisitSum ==
    /\ Visiting("CustomVisitor", "visitSum")
    /\ Pending(Frames(stack[1].node.types, <<>>))
    /\ UNCHANGED names_with_seq
    /\ CustomFrame

\* CustomVisitor.visitConstructor
CustomVisitConstructor ==
    /\ Visiting("CustomVisitor", "visitConstructor")
    /\ names_with_seq' = SeqNamesAfter(names_with_seq, stack[1].node)
    /\ Pending(<<>>)
    /\ CustomFrame

\* visit(obj) for a kind the visitor has no handler for: if meth: fails
VisitSkip ==
    /\ pc \in {"checking", "visiting"}
    /\ stack # <<>>
    /\ Resolve(visitor, cache, stack[1].node.class) = NoneVal
    /\ cache' = CacheAfter(visitor, cache, stack[1].node.class)
    /\ lookups' = LookupsAfter(lookups, cache, stack[1].node.class)
    /\ Pending(<<>>)
    /\ UNCHANGED <<buf, input, pc, lexvars, result, cons, errors, types, order, out, verdict,
                   visitor, calls, names_with_seq, raised>>

\* visit(obj) when meth(obj, *args) raises: the except clause of this
\* visit and of every visit around it prints and raises again
VisitRaise ==
    /\ pc \in {"checking", "visiting"}
    /\ stack # <<>>
    /\ \E meth \in {Resolve(visitor, cache, stack[1].node.class)} :
           /\ meth # NoneVal
           /\ \E e \in {HandlerRaises(visitor, meth, stack[1].node, stack[1].args)} :
                  /\ e # NoneVal
                  /\ raised' = e
                  /\ out' = out \o ErrorLines(stack[1].node, ups[1], e)
                  /\ names_with_seq' =
                         IF e = "AttributeError"
                         THEN SeqNamesAfter(names_with_seq, stack[1].node)
                         ELSE names_with_seq
           /\ calls' = Append(calls, [meth |-> meth, node |-> stack[1].node,
                                       args |-> stack[1].args])
    /\ cache' = CacheAfter(visitor, cache, stack[1].node.class)
    /\ lookups' = LookupsAfter(lookups, cache, stack[1].node.class)
    /\ stack' = <<>>
    /\ ups' = <<>>
    /\ pc' = "raised"
    /\ UNCHANGED <<buf, input, lexvars, result, cons, errors, types, order, verdict, visitor>>

\* the outermost v.visit(obj) returns
VisitReturn ==
    /\ pc = "visiting"
    /\ stack = <<>>
    /\ pc' = "visited"
    /\ UNCHANGED <<buf, input, lexvars, result, chkvars>>

Next ==
    \/ LexExhausted
    \/ LexReturn
    \/ LexIdentifier
    \/ LexOperator
    \/ LexComment
    \/ LexRaise
    \/ Parse
    \/ CheckStart
    \/ VisitModule
    \/ VisitType
    \/ VisitSum
    \/ VisitConstructor
    \/ VisitField
    \/ VisitProduct
    \/ CheckReturn
    \/ VisitStart
    \/ VisitBuilt
    \/ CustomVisitModule
    \/ CustomVisitType
    \/ CustomVisitSum
    \/ CustomVisitConstructor
    \/ VisitSkip
    \/ VisitRaise
    \/ VisitReturn

Spec == Init /\ [][Next]_vars

\* the code runs every step it has: no run stops while a step is enabled
FairSpec == Spec /\ WF_vars(Next)

TypeOK ==
    pc \in {"start", "lexing", "lexed", "parsed", "failed", "checking", "done",
            "built", "visiting", "visited", "raised"}


(***************************************************************************)
(* What the statements below speak of.                                     *)
(***************************************************************************)
\* ASDLParser.parse has returned or raised
ParseDone == pc \in {"parsed", "failed", "checking", "done"}

\* ASDLParser.parse has returned a Module
Returned == pc \in {"parsed", "checking", "done"}

\* the buffer is empty or holds white space only
Blank(b) == \A k \in 1 .. Len(b) : IsSpaceChar(b[k])

\* the number of newline characters before position p
NewlinesBefore(b, p) == Cardinality({k \in 1 .. p : b[k] = NL})

\* the places of the fields of a tree: in a constructor <<d, "cons", c, k>>,
\* in a product <<d, "fields", 0, k>>, in an attributes list <<d, "attributes", 0, k>>
FieldPlaces(m) ==
    UNION { LET v == m.dfns[d].value
            IN  (IF v.class = "Sum"
                 THEN UNION { { <<d, "cons", c, k>> : k \in 1 .. Len(v.types[c].fields) }
                              : c \in 1 .. Len(v.types) }
                 ELSE { <<d, "fields", 0, k>> : k \in 1 .. Len(v.fields) })
                \cup { <<d, "attributes", 0, k>> : k \in 1 .. Len(v.attributes) }
            : d \in 1 .. Len(m.dfns) }

FieldAt(m, q) ==
    LET v == m.dfns[q[1]].value
    IN  CASE q[2] = "cons" -> v.types[q[3]].fields[q[4]]
          [] q[2] = "fields" -> v.fields[q[4]]
          [] OTHER -> v.attributes[q[4]]

\* the names of the types the tree defines
Defined(m) == {m.dfns[d].name : d \in 1 .. Len(m.dfns)}

\* the field's type is neither built in nor defined in the tree
UndefinedType(m, f) == f.type \notin builtin_types /\ f.type \notin Defined(m)

\* C1: a buffer that ends before the module is complete (a proper prefix of
\* the text of a module, or a blank buffer) makes parse raise ASDLSyntaxError
\* with a line number, and nothing else.
C1_TruncatedRaisesSyntaxError ==
    (ParseDone /\ (input.kind = "prefix" \/ Blank(buf)))
        => (result.st = "ASDLSyntaxError" /\ result.lineno >= 1)

\* C2: check returns false whenever some field of the module, in a
\* constructor, in a product or in an attributes list, has a type that is
\* neither built in nor defined in the module.
C2_UndefinedFieldTypeFails ==
    (pc = "done" /\ \E q \in FieldPlaces(result.v) :
                        UndefinedType(result.v, FieldAt(result.v, q)))
        => verdict = FALSE

\* the kinds of one field: TypeId ["?" | "*"] [Id]
FieldKindsOK(ks) ==
    /\ Len(ks) \in 1 .. 3
    /\ ks[1] = "TypeId"
    /\ Len(ks) = 2 => ks[2] \in {"Question", "Asterisk"} \cup id_kinds
    /\ Len(ks) = 3 => ks[2] \in {"Question", "Asterisk"} /\ ks[3] \in id_kinds

RECURSIVE FieldListOK(_)
\* the kinds between "(" and ")": field { "," field }
FieldListOK(ks) ==
    /\ ks # <<>>
    /\ LET commas == {k \in 1 .. Len(ks) : ks[k] = "Comma"}
           c == IF commas = {} THEN Len(ks) + 1 ELSE Min(commas)
       IN  /\ FieldKindsOK(SubSeq(ks, 1, c - 1))
           /\ c <= Len(ks) => FieldListOK(SubSeq(ks, c + 1, Len(ks)))

\* every "(" ... ")" among the first n tokens encloses field { "," field }
GroupsOK(toks, n) ==
    \A i \in 1 .. n :
        toks[i].kind = "LParen" =>
            \E j \in (i + 1) .. n :
                /\ toks[j].kind = "RParen"
                /\ \A k \in (i + 1) .. (j - 1) : toks[k].kind # "RParen"
                /\ FieldListOK([k \in 1 .. (j - i - 1) |-> toks[i + k].kind])

\* C3: parse returns a Module only if every fields group of the input is
\* "(" field { "," field } ")": no empty group, no missing comma, no
\* trailing comma.
C3_FieldGroupsGrammatical ==
    Returned => GroupsOK(tokenize_asdl(buf).toks, result.ps.i - 1)


\* a definition named attributes directly after a definition that has no
\* attributes clause
AttributesAfterBare(m) ==
    \E d \in 2 .. Len(m.dfns) :
        /\ m.dfns[d].name = "attributes"
        /\ m.dfns[d - 1].value.attributes = <<>>

RECURSIVE InOrder(_)
InOrder(S) ==
    IF S = {} THEN <<>>
    ELSE LET q == CHOOSE x \in S : \A y \in S :
                      \/ x[1] < y[1]
                      \/ x[1] = y[1] /\ x[3] < y[3]
                      \/ x[1] = y[1] /\ x[3] = y[3] /\ x[4] <= y[4]
         IN  <<q>> \o InOrder(S \ {q})

Visited(m) == InOrder({q \in FieldPlaces(m) : q[2] # "attributes"})

\* the name of the type definition that holds the field
HolderType(m, q) == m.dfns[q[1]].name

\* the constructor's name for a constructor's field, the type definition's
\* name for a product's field
HolderConsOrType(m, q) ==
    IF q[2] = "cons" THEN m.dfns[q[1]].value.types[q[3]].name
    ELSE m.dfns[q[1]].name

UsesFilter(m, t) == SelectSeq(Visited(m), LAMBDA q : FieldAt(m, q).type = t)

\* one entry Holder(m, q) per visited field of type t, in traversal order
UsesOf(m, t, Holder(_, _)) ==
    [k \in 1 .. Len(UsesFilter(m, t)) |-> Holder(m, UsesFilter(m, t)[k])]

\* the type names the visited fields use that are neither built in nor defined
UndefinedUsed(m) ==
    {FieldAt(m, Visited(m)[k]).type : k \in 1 .. Len(Visited(m))}
        \ (builtin_types \cup Defined(m))

ConsPlaces(m) ==
    InOrder(UNION { IF m.dfns[d].value.class = "Sum"
                    THEN { <<d, "cons", c, 0>> : c \in 1 .. Len(m.dfns[d].value.types) }
                    ELSE {}
                    : d \in 1 .. Len(m.dfns) })

ConsNameAt(m, q) == m.dfns[q[1]].value.types[q[3]].name

\* the constructors whose name an earlier constructor already has
Redefinitions(m) ==
    LET cs == ConsPlaces(m)
        ks == SelectSeq([k \in 1 .. Len(cs) |-> k], LAMBDA k :
                  \E j \in 1 .. (k - 1) : ConsNameAt(m, cs[j]) = ConsNameAt(m, cs[k]))
    IN  [n \in 1 .. Len(ks) |-> cs[ks[n]]]

\* the type definition that holds the first constructor of that name
FirstDefiner(m, name) ==
    LET cs == ConsPlaces(m)
        k == Min({j \in 1 .. Len(cs) : ConsNameAt(m, cs[j]) = name})
    IN  m.dfns[cs[k][1]].name

\* the two lines of the report of the n-th redefinition
RedefinitionReport(m, n) ==
    LET q == Redefinitions(m)[n]
    IN  << "Redefinition of constructor" \o ConsNameAt(m, q),
           "Defined in " \o FirstDefiner(m, ConsNameAt(m, q))
               \o " and " \o m.dfns[q[1]].name >>

\* check is about to visit a constructor whose name is already defined
AtRedefinition ==
    /\ pc = "checking"
    /\ stack # <<>>
    /\ stack[1].node.class = "Constructor"
    /\ stack[1].node.name \in DOMAIN cons

\* C6: the visit of a constructor whose name is already defined adds exactly
\* one to the error count, leaves the first-definer mapping unchanged and
\* goes on to the constructor's fields and to what was still to be
\* visited; when check returns, each such constructor has been reported with
\* the type that first defined the name and its own type, every
\* constructor's field and every constructor has been visited, and the
\* result is false if there was any.
C6_DuplicateConstructor ==
    [][ /\ AtRedefinition =>
            /\ errors' = errors + 1
            /\ cons' = cons
            /\ cons[stack[1].node.name] = FirstDefiner(result.v, stack[1].node.name)
            /\ Len(out') = Len(out) + 2
            /\ LET fs == stack[1].node.fields
               IN  /\ Len(stack') = Len(fs) + Len(stack) - 1
                   /\ \A k \in 1 .. Len(fs) : stack'[k].node = fs[k]
                   /\ \A k \in 2 .. Len(stack) : stack'[Len(fs) + k - 1] = stack[k]
        /\ (pc = "checking" /\ pc' = "done") =>
            LET m == result.v
                n == Len(Redefinitions(m))
            IN  /\ n > 0 => verdict' = FALSE
                /\ errors' = n + Cardinality(UndefinedUsed(m))
                /\ \A k \in 1 .. n :
                       /\ out'[2 * k - 1] = RedefinitionReport(m, k)[1]
                       /\ out'[2 * k] = RedefinitionReport(m, k)[2]
                /\ \A k \in 1 .. Len(ConsPlaces(m)) :
                       ConsNameAt(m, ConsPlaces(m)[k]) \in DOMAIN cons'
                /\ \A k \in 1 .. Len(Visited(m)) :
                       FieldAt(m, Visited(m)[k]).type \in DOMAIN types'
      ]_vars

\* a second constructor A with a field of its own was reported and check
\* returned false
C6_Witness ==
    /\ pc = "done"
    /\ verdict = FALSE
    /\ \E k \in 1 .. Len(Redefinitions(result.v)) :
           LET q == Redefinitions(result.v)[k]
           IN  result.v.dfns[q[1]].value.types[q[3]].fields # <<>>
    /\ Len(out) >= 2
    /\ out[1] = "Redefinition of constructorA"

\* a grammatical module, but for the case C4 sets apart
Grammatical == input.kind = "module" /\ ~AttributesAfterBare(input.tree)

\* parse and check are over, or the lexer alone is, or a visitor called directly
Terminated == pc \in {"done", "failed", "lexed", "visited", "raised"}

\* a turn of the lexer's loop that goes on to another turn
LexerTurn == Lexing /\ pc' = "lexing"

\* every turn of a parser loop starts after the turn before it of that loop
ParserLoopsConsume ==
    LET loops == result.ps.loops
    IN  \A j, k \in 1 .. Len(loops) :
            (j < k /\ loops[j][1] = loops[k][1]) => loops[j][2] < loops[k][2]

C8_WholeBufferIsTheModule ==
    Returned =>
        /\ tokenize_asdl(buf).end = "stop"
        /\ result.ps.i = Len(tokenize_asdl(buf).toks) + 1

\* the first position at or after p that holds no white space
TokenStart(b, p) ==
    IF \A k \in (p + 1) .. Len(b) : IsSpaceChar(b[k]) THEN Len(b)
    ELSE Min({k \in p .. (Len(b) - 1) : ~IsSpaceChar(b[k + 1])})

\* the length of the longest run of word characters from position p
RunLength(b, p) ==
    CHOOSE n \in 0 .. (Len(b) - p) :
        /\ \A k \in 1 .. n : IsWordChar(b[p + k])
        /\ p + n < Len(b) => ~IsWordChar(b[p + n + 1])

\* C9: where the lexer starts a token on an alphabetic character, it emits
\* exactly one token, whose value is the maximal run of word characters
\* from there, of kind ConstructorId if the first character is upper case
\* and TypeId otherwise, and scans on from the end of the run.
C9_IdentifierIsMaximalRun ==
    [][ LET s == TokenStart(buf, pos)
        IN  (Lexing /\ pc' \in {"lexing", "lexed"} /\ s < Len(buf) /\ isalpha(buf[s + 1])) =>
                LET n == RunLength(buf, s)
                IN  /\ Len(tokens') = Len(tokens) + 1
                    /\ SubSeq(tokens', 1, Len(tokens)) = tokens
                    /\ tokens'[Len(tokens')].value = Str(SubSeq(buf, s + 1, s + n))
                    /\ tokens'[Len(tokens')].kind =
                           IF isupper(buf[s + 1]) THEN "ConstructorId" ELSE "TypeId"
                    /\ pos' = s + n
                    /\ pc' = "lexing"
      ]_vars

\* an upper-case run with an underscore became a ConstructorId, and the
\* lower-case run after it a TypeId
C9_Witness ==
    /\ Len(tokens) = 2
    /\ tokens[1].kind = "ConstructorId"
    /\ tokens[1].value = "A_"
    /\ tokens[2].kind = "TypeId"
    /\ tokens[2].value = "a"
    /\ pos = Len(buf)

\* C10: every token the lexer yields, and the error it raises, carries the
\* line number 1 + the number of newlines of the buffer before its first
\* character.
C10_LineNumbers ==
    /\ \A k \in 1 .. Len(tokens) :
           /\ tokens[k].lineno = 1 + NewlinesBefore(buf, tokens[k].start)
           /\ tokens[k].value =
                  Str(SubSeq(buf, tokens[k].start + 1,
                             tokens[k].start + Len(tokens[k].value)))
    /\ lexerr.class # NoneVal =>
           /\ lexerr.lineno = 1 + NewlinesBefore(buf, lexerr.at)
           /\ lexerr.at < Len(buf)
           /\ ~IsSpaceChar(buf[lexerr.at + 1])

\* a token on line 2 and, after it, an error on line 3
C10_Witness ==
    /\ Len(tokens) = 1
    /\ tokens[1].lineno = 2
    /\ lexerr.class # NoneVal
    /\ lexerr.lineno = 3


\* the comments to insert: "--", "-- a", "---", "--("
CommentTexts == { <<"-", "-">>, <<"-", "-", " ", "a", "-", "(">> }

\* the buffer with the text c inserted at position p
InsertAt(b, p, c) == SubSeq(b, 1, p) \o c \o SubSeq(b, p + 1, Len(b))

\* only white space stands between position p and the end of its line
RestOfLineBlank(b, p) ==
    \A k \in (p + 1) .. Len(b) :
        \/ IsSpaceChar(b[k])
        \/ b[k] = NL
        \/ \E j \in (p + 1) .. (k - 1) : b[j] = NL

\* position p of b is a token boundary of the lexer's run S over b: it is not
\* inside a token, and the lexer did not give up before it
TokenBoundary(S, p) ==
    /\ \A k \in 1 .. Len(S.toks) :
           ~(S.toks[k].start < p /\ p < S.toks[k].start + Len(S.toks[k].value))
    /\ S.end = "raise" => p <= S.at

\* the positions where a comment may be inserted
CommentPlaces(b, S) ==
    {p \in 0 .. Len(b) : RestOfLineBlank(b, p) /\ TokenBoundary(S, p)}

\* the kinds and values of the tokens
KindsAndValues(toks) ==
    [k \in 1 .. Len(toks) |-> <<toks[k].kind, toks[k].value>>]

\* C11: a comment inserted at a token boundary that only white space follows
\* on its line changes neither the kinds and values of the tokens the lexer
\* yields nor the way its run ends, and parse of the buffer with the comment
\* does what parse of the buffer did: the same tree, or the same exception.
C11_CommentInvariance ==
    /\ pc = "lexed" =>
           \E S \in {tokenize_asdl(buf)} :
               /\ KindsAndValues(S.toks) = KindsAndValues(tokens)
               /\ \A p \in CommentPlaces(buf, S) : \A c \in CommentTexts :
                      \E T \in {tokenize_asdl(InsertAt(buf, p, c))} :
                          /\ KindsAndValues(T.toks) = KindsAndValues(tokens)
                          /\ T.end = S.end
    /\ pc \in {"parsed", "failed"} =>
           \E S \in {tokenize_asdl(buf)} :
               \A p \in CommentPlaces(buf, S) : \A c \in CommentTexts :
                   \E r \in {parse(InsertAt(buf, p, c))} :
                       /\ r.st = result.st
                       /\ r.v = result.v

\* a module of two lines was parsed: a comment fits at the end of its first
\* line, with tokens after it, and at its end
C11_Witness ==
    /\ pc = "parsed"
    /\ Len(result.v.dfns) >= 1
    /\ \E p \in CommentPlaces(buf, tokenize_asdl(buf)) :
           /\ p < Len(buf)
           /\ buf[p + 1] = NL
           /\ \E k \in 1 .. Len(tokenize_asdl(buf).toks) :
                  tokenize_asdl(buf).toks[k].start > p
    /\ Len(buf) \in CommentPlaces(buf, tokenize_asdl(buf))


Quantifiers == {"Asterisk", "Question"}

\* token i is the type of a field, inside the module's braces, and two
\* quantifiers follow it
TwoQuantifiersAt(toks, i) ==
    /\ i >= 2
    /\ i + 2 <= Len(toks)
    /\ toks[i - 1].kind \in {"LParen", "Comma"}
    /\ toks[i].kind = "TypeId"
    /\ toks[i + 1].kind \in Quantifiers
    /\ toks[i + 2].kind \in Quantifiers
    /\ \A j \in 1 .. i : toks[j].kind # "RBrace"

\* C12: no field of a tree that parse returns is both a sequence and
\* optional, and parse raises ASDLSyntaxError for a buffer in which two
\* quantifiers follow the type of a field.
C12_OneQuantifier ==
    /\ Returned =>
           \A q \in FieldPlaces(result.v) :
               ~(FieldAt(result.v, q).seq /\ FieldAt(result.v, q).opt)
    /\ (pc \in {"parsed", "failed"} /\ result.st # "ASDLSyntaxError") =>
           \E S \in {tokenize_asdl(buf)} :
               \A i \in 1 .. Len(S.toks) : ~TwoQuantifiersAt(S.toks, i)

\* parse raised for a field with "*" and then "?" after its type
C12_Witness ==
    /\ pc = "failed"
    /\ result.st = "ASDLSyntaxError"
    /\ \E i \in 1 .. Len(tokenize_asdl(buf).toks) :
           /\ TwoQuantifiersAt(tokenize_asdl(buf).toks, i)
           /\ tokenize_asdl(buf).toks[i + 1].kind = "Asterisk"
           /\ tokenize_asdl(buf).toks[i + 2].kind = "Question"


\* the definitions of a tree whose name a later definition has again
Shadowed(m) ==
    {d \in 1 .. Len(m.dfns) : \E e \in (d + 1) .. Len(m.dfns) : m.dfns[e].name = m.dfns[d].name}

\* C16: the keys of Module.types are exactly the names of the module's
\* dfns, each mapped to the value of the last definition of that name; a
\* module with two definitions of one type name is parsed, and the verdict of
\* check is true exactly when no constructor name is defined twice and no
\* visited field uses an undefined type, and nothing else is counted or
\* reported, whatever type names are repeated.
C16_LastDefinitionWins ==
    /\ Returned =>
           /\ DOMAIN result.v.types = Defined(result.v)
           /\ \A d \in (1 .. Len(result.v.dfns)) \ Shadowed(result.v) :
                  result.v.types[result.v.dfns[d].name] = result.v.dfns[d].value
    /\ pc = "done" =>
           /\ verdict = (Len(Redefinitions(result.v)) = 0 /\ UndefinedUsed(result.v) = {})
           /\ errors = Len(Redefinitions(result.v)) + Cardinality(UndefinedUsed(result.v))
           /\ Len(out) = 2 * Len(Redefinitions(result.v)) + Cardinality(UndefinedUsed(result.v))

\* a type name defined twice with different values: parse returned the tree,
\* the dictionary holds the later value, and check accepted the module
C16_Witness ==
    /\ pc = "done"
    /\ verdict = TRUE
    /\ \E d \in Shadowed(result.v) :
           result.v.types[result.v.dfns[d].name] # result.v.dfns[d].value


\* the visitor defines a handler for the kind of the object of the visit
\* call that runs next
HasHandler == stack[1].node.class \in Handlers(visitor)

\* the handler call of that visit
HandlerCall ==
    [meth |-> "visit" \o stack[1].node.class, node |-> stack[1].node, args |-> stack[1].args]

\* the names of the constructors a handler was called for, in the order of the calls
ConstructorsCalled ==
    LET cs == SelectSeq(calls, LAMBDA c : c.meth = "visitConstructor")
    IN  [k \in 1 .. Len(cs) |-> cs[k].node.name]

\* a visitor was called for the whole module the parser returned, and came back
ModuleTraversed ==
    /\ pc \in {"done", "visited"}
    /\ result.st = "ok"
    /\ calls # <<>>
    /\ calls[1].node = result.v

\* C13: a visit of an object whose kind the visitor has a handler for calls
\* that handler, with the object and the arguments of the visit, exactly
\* once and calls no other; after the handler of a sum the visits of its
\* constructors are what comes next, in source order, so that a
\* traversal of a parsed module calls the constructors' handler in the
\* order of the source.  A visit of an object whose kind has no handler calls
\* nothing, raises nothing, prints nothing and changes nothing of the
\* visitor but the cache, of which it changes no other kind's entry.
C13_VisitDispatch ==
    /\ [][ (pc \in {"checking", "visiting"} /\ stack # <<>>) =>
             /\ HasHandler =>
                    /\ calls' = Append(calls, HandlerCall)
                    /\ (stack[1].node.class = "Sum" /\ pc' # "raised") =>
                           /\ Len(stack') = Len(stack[1].node.types) + Len(stack) - 1
                           /\ \A k \in 1 .. Len(stack[1].node.types) :
                                  stack'[k].node = stack[1].node.types[k]
             /\ ~HasHandler =>
                    /\ calls' = calls
                    /\ pc' = pc
                    /\ raised' = raised
                    /\ out' = out
                    /\ UNCHANGED <<cons, errors, types, order, names_with_seq, verdict, visitor>>
                    /\ stack' = Tail(stack)
                    /\ \A k \in DOMAIN cache \ {stack[1].node.class} :
                           k \in DOMAIN cache' /\ cache'[k] = cache[k]
         ]_vars
    /\ [](ModuleTraversed =>
              ConstructorsCalled = [k \in 1 .. Len(ConsPlaces(result.v)) |->
                                       ConsNameAt(result.v, ConsPlaces(result.v)[k])])

\* CustomVisitor came back from a module with a product, which it has no
\* handler for, and then a sum, whose constructor it was called for
C13_Witness ==
    /\ ModuleTraversed
    /\ visitor = "CustomVisitor"
    /\ "Product" \in DOMAIN cache
    /\ cache["Product"] = NoneVal
    /\ result.v.dfns[1].value.class = "Product"
    /\ ConstructorsCalled # <<>>

\* C14: for one visitor instance, the lookup of the method named
\* visit<Kind> runs at most once for each node kind, whether the kind has a
\* handler or not.
C14_LookupAtMostOncePerKind ==
    \A k \in DOMAIN lookups : lookups[k] <= 1

\* c is one of the objects the node p holds
ChildOf(c, p) ==
    \/ p.class = "Module" /\ \E k \in 1 .. Len(p.dfns) : p.dfns[k] = c
    \/ p.class = "Type" /\ p.value = c
    \/ p.class = "Sum" /\ \E k \in 1 .. Len(p.types) : p.types[k] = c
    \/ p.class \in {"Constructor", "Product"} /\ \E k \in 1 .. Len(p.fields) : p.fields[k] = c

\* the lines printed in this step
Printed == SubSeq(out', Len(out) + 1, Len(out'))

\* C15: when the call of a handler raises, the visit of the failing object
\* reports the error, then every visit call around it does, from the one
\* that holds the failing object out to the outermost, whose object is
\* the one the first handler call of the run was for; the exception leaves
\* that outermost visit; the failing call is the last handler call of the
\* run: the visits that were pending are dropped and no handler is called
\* afterwards.
C15_ErrorPropagates ==
    /\ [][ (pc # "raised" /\ pc' = "raised") =>
             /\ out = SubSeq(out', 1, Len(out))
             /\ Len(Printed) >= 1
             /\ \A k \in 1 .. Len(Printed) :
                    Printed[k].fmt = "Error visiting %r: %s" /\ Printed[k].e = raised'
             /\ Printed[1].obj = stack[1].node
             /\ \A k \in 1 .. (Len(Printed) - 1) : ChildOf(Printed[k].obj, Printed[k + 1].obj)
             /\ Printed[Len(Printed)].obj = calls'[1].node
             /\ raised' \in {"TypeError", "AttributeError"}
             /\ calls' = Append(calls, HandlerCall)
             /\ stack' = <<>>
         ]_vars
    /\ [][ pc = "raised" => (calls' = calls /\ pc' = "raised") ]_vars
    /\ [](pc = "raised" => (stack = <<>> /\ verdict = NoneVal))

\* a handler raised three levels down or more, and a definition of the
\* module that came after the failing object never had a handler called
C15_Witness ==
    /\ pc = "raised"
    /\ Len(out) >= 3
    /\ calls[1].node.class = "Module"
    /\ \E d \in 1 .. Len(calls[1].node.dfns) :
           \A i \in 1 .. Len(calls) : calls[i].node # calls[1].node.dfns[d]

====
